---- MODULE Spec2Model ----
(***************************************************************************)
(* A model of the Arc entity of the fiducials map builder (Arc.cpp): the   *)
(* measured link between two Tag objects, its canonical construction, its  *)
(* two comparators, the goodness-gated load done by Arc__read, and the     *)
(* textual record written by Arc__write.                                   *)
(*                                                                         *)
(* A C++ double is modelled as a decimal fixed-point number <<w, n>> that  *)
(* stands for w + n * 10^-9, with w an integer and 0 <= n < 10^9 (the      *)
(* floor form, so -0.5 is <<-1, 500000000>>).  A value printed with "%f"   *)
(* is the pair <<w, m>> that stands for w + m * 10^-6.                     *)
(***************************************************************************)
EXTENDS Integers, Sequences, FiniteSets, TLC

VARIABLES arcs, map_arcs, tag_arcs, hop_count, out_file, in_log, last, aborted

vars == <<arcs, map_arcs, tag_arcs, hop_count, out_file, in_log, last, aborted>>

(***************************************************************************)
(* Bounds of the model.                                                    *)
(***************************************************************************)
NumTags == 2
MaxArcs == 1
MaxReads == 3

(***************************************************************************)
(* Decimal fixed-point arithmetic standing for double arithmetic.          *)
(***************************************************************************)
Nano == 1000 * 1000 * 1000
Micro == 1000 * 1000

DecLess(a, b) == a[1] < b[1] \/ (a[1] = b[1] /\ a[2] < b[2])

DecNeg(a) == IF a[2] = 0 THEN <<-a[1], 0>> ELSE <<-a[1] - 1, Nano - a[2]>>

DecAdd(a, b) ==
    LET n == a[2] + b[2]
    IN IF n >= Nano THEN <<a[1] + b[1] + 1, n - Nano>> ELSE <<a[1] + b[1], n>>

DecSub(a, b) == DecAdd(a, DecNeg(b))

DecAbs(a) == IF a[1] < 0 THEN DecNeg(a) ELSE a

\* <<q, r>> with a * b = q * Nano + r and 0 <= r < Nano, for a, b >= 0, by
\* doubling, so that no intermediate value leaves the 32-bit range.
RECURSIVE MulDouble(_, _)
MulDouble(a, b) ==
    IF b = 0 THEN <<0, 0>>
    ELSE LET h == MulDouble(a, b \div 2)
             d == 2 * h[2]
             t == (d % Nano) + (IF b % 2 = 1 THEN a % Nano ELSE 0)
         IN <<2 * h[1] + (d \div Nano) + (t \div Nano)
                + (IF b % 2 = 1 THEN a \div Nano ELSE 0),
              t % Nano>>

MulNano(a, b) == IF a < b THEN MulDouble(b, a) ELSE MulDouble(a, b)

\* a * k for a >= 0 and the constant k = k[1] + k[2] * 10^-9 + k[3] * 10^-18,
\* rounded to the nearest 10^-9.
DecMulPos(a, k) ==
    LET wn == MulNano(a[1], k[2])
        nw == MulNano(a[2], k[1])
        nn == MulNano(a[2], k[2])
        wp == MulNano(a[1], k[3])
        np == MulNano(a[2], k[3])
        s1 == nn[2] + wp[2]
        s2 == (s1 % Nano) + np[1]
        up == IF 2 * (s2 % Nano) >= Nano THEN 1 ELSE 0
    IN DecAdd(DecAdd(<<a[1] * k[1] + wn[1] + nw[1], wn[2]>>, <<0, nw[2]>>),
              DecAdd(DecAdd(<<0, nn[1]>>, <<0, wp[1]>>),
                     <<0, (s1 \div Nano) + (s2 \div Nano) + up>>))

DecMul(a, k) == IF a[1] < 0 THEN DecNeg(DecMulPos(DecNeg(a), k)) ELSE DecMulPos(a, k)

DecPositive(a) == DecLess(<<0, 0>>, a)

\* The "%f" conversion of printf: six decimals, rounded to nearest.
FormatF(a) ==
    LET m == (a[2] + 500) \div 1000
    IN IF m = Micro THEN <<a[1] + 1, 0>> ELSE <<a[1], m>>

\* The text of a decimal attribute read back as a double.
File__double_attribute_read(t) == <<t[1], t[2] * 1000>>

\* 180 / pi and pi / 180 for pi = 3.14159265358979323846264.
radians_to_degrees == <<57, 295779513, 82320877>>
degrees_to_radians == <<0, 17453292, 519943296>>

(***************************************************************************)
(* Tags.  A Tag is named by its id, 1..NumTags; NullTag is (Tag)0.         *)
(***************************************************************************)
NullTag == 0
Tags == 1 .. NumTags

Tag__equal(tag1, tag2) == tag1 = tag2
Tag__less(tag1, tag2) == tag1 < tag2
Map__tag_lookup(tag_id) == tag_id

(***************************************************************************)
(* Arc routines.                                                           *)
(***************************************************************************)
SentinelGoodness == 123456789

Arc__new ==
    [distance |-> <<-1, 0>>, from_tag |-> NullTag, from_twist |-> <<0, 0>>,
     goodness |-> <<SentinelGoodness, 0>>, in_tree |-> FALSE, to_tag |-> NullTag,
     to_twist |-> <<0, 0>>, visit |-> 0]

Arc__equal(arc1, arc2) ==
    Tag__equal(arc1.from_tag, arc2.from_tag) /\ Tag__equal(arc1.to_tag, arc2.to_tag)

Arc__less_from_only(arc1, arc2) == Tag__less(arc1.from_tag, arc2.from_tag)

Arc__less(arc1, arc2) ==
    IF Tag__less(arc1.from_tag, arc2.from_tag) THEN TRUE
    ELSE IF Tag__equal(arc1.from_tag, arc2.from_tag)
         THEN Tag__less(arc1.to_tag, arc2.to_tag)
         ELSE FALSE

Arc__create_twists_kept(from_tag, from_twist, distance, to_tag, to_twist, goodness) ==
    [distance |-> distance,
     from_tag |-> IF from_tag > to_tag THEN to_tag ELSE from_tag,
     from_twist |-> from_twist, goodness |-> goodness, in_tree |-> FALSE,
     to_tag |-> IF from_tag > to_tag THEN from_tag ELSE to_tag,
     to_twist |-> to_twist, visit |-> 0]

\* The arc Arc__create builds, before it is registered with its tags and map.
Arc__create(from_tag, from_twist, distance, to_tag, to_twist, goodness) ==
    LET swap == from_tag > to_tag
    IN [Arc__new EXCEPT
          !.distance = distance,
          !.from_tag = IF swap THEN to_tag ELSE from_tag,
          !.from_twist = IF swap THEN to_twist ELSE from_twist,
          !.goodness = goodness,
          !.to_tag = IF swap THEN from_tag ELSE to_tag,
          !.to_twist = IF swap THEN from_twist ELSE to_twist]

Min(x, y) == IF x < y THEN x ELSE y

lowest_hop_count(hops, arc) == Min(hops[arc.from_tag], hops[arc.to_tag])

Arc__distance_less_fewer_hops(hops, arc1, arc2) ==
    IF DecLess(arc2.distance, arc1.distance) THEN TRUE
    ELSE IF arc1.distance = arc2.distance
         THEN Min(hops[arc1.from_tag], hops[arc1.to_tag])
                < Min(hops[arc2.from_tag], hops[arc2.to_tag])
         ELSE FALSE

Arc__distance_less(hops, arc1, arc2) ==
    IF DecLess(arc2.distance, arc1.distance) THEN TRUE
    ELSE IF arc1.distance = arc2.distance
         THEN lowest_hop_count(hops, arc1) > lowest_hop_count(hops, arc2)
         ELSE FALSE

\* The outcomes of Arc__update: the arc as the call leaves it and the assertion
\* that failed, if any.  The arc is written field by field in the order of the
\* code, so a failed second assertion leaves from_twist already stored.  On an
\* arc whose tags are null the first assertion dereferences a null pointer:
\* the call may crash, or continue either way on whatever it read.
UpdateFrom_unchecked(arc, from_twist, distance, to_twist, goodness) ==
    [arc |-> [arc EXCEPT !.from_twist = from_twist, !.distance = distance,
                         !.goodness = goodness, !.to_twist = to_twist],
     fail |-> "none"]

UpdateFrom(arc, from_twist, distance, to_twist, goodness) ==
    LET a1 == [arc EXCEPT !.from_twist = from_twist]
    IN IF ~DecPositive(distance)
       THEN [arc |-> a1, fail |-> "assert_distance"]
       ELSE [arc |-> [a1 EXCEPT !.distance = distance, !.goodness = goodness,
                                !.to_twist = to_twist],
             fail |-> "none"]

Arc__update(arc, from_twist, distance, to_twist, goodness) ==
    IF arc.from_tag = NullTag \/ arc.to_tag = NullTag
    THEN {[arc |-> arc, fail |-> "segv"], [arc |-> arc, fail |-> "assert_ids"],
          UpdateFrom(arc, from_twist, distance, to_twist, goodness)}
    ELSE IF ~(arc.from_tag < arc.to_tag)
         THEN {[arc |-> arc, fail |-> "assert_ids"]}
         ELSE {UpdateFrom(arc, from_twist, distance, to_twist, goodness)}

\* The goodness attribute of a record, as Arc__read reads it.
ReadGoodness(rec) == File__double_attribute_read(rec.goodness)

\* The outcomes of the load at the end of Arc__read, for the arc the map
\* returned and the attributes of the record; admit is the result of the test
\* of the goodness that lets the record in.
ReadGated(arc, rec, admit) ==
    LET from_twist == DecMul(File__double_attribute_read(rec.from_twist),
                             degrees_to_radians)
        distance == File__double_attribute_read(rec.distance)
        to_twist == DecMul(File__double_attribute_read(rec.to_twist),
                           degrees_to_radians)
        goodness == ReadGoodness(rec)
        in_tree == rec.in_tree # 0
    IN IF admit
       THEN {IF u.fail = "none"
             THEN [arc |-> [u.arc EXCEPT !.in_tree = in_tree], fail |-> "none",
                   announce |-> TRUE]
             ELSE [arc |-> u.arc, fail |-> u.fail, announce |-> FALSE]
             : u \in Arc__update(arc, from_twist, distance, to_twist, goodness)}
       ELSE {[arc |-> arc, fail |-> "none", announce |-> FALSE]}

\* Arc__read with another test of the goodness: none, the opposite one, and
\* one that lets an equal goodness in.
Arc__read_ungated(arc, rec) == ReadGated(arc, rec, TRUE)

Arc__read_keeps_worst(arc, rec) ==
    ReadGated(arc, rec, DecLess(arc.goodness, ReadGoodness(rec)))

Arc__read_ties_win(arc, rec) ==
    ReadGated(arc, rec, ~DecLess(arc.goodness, ReadGoodness(rec)))

\* Arc__read loads the record when the stored goodness is greater.
GateBetter(stored, read) == DecLess(read, stored)

Arc__read(arc, rec) ==
    ReadGated(arc, rec, GateBetter(arc.goodness, ReadGoodness(rec)))

\* The <Arc .../> record Arc__write prints.
Arc__write(arc) ==
    [from_id |-> arc.from_tag,
     from_twist |-> FormatF(DecMul(arc.from_twist, radians_to_degrees)),
     distance |-> FormatF(arc.distance),
     to_id |-> arc.to_tag,
     to_twist |-> FormatF(DecMul(arc.to_twist, radians_to_degrees)),
     goodness |-> FormatF(arc.goodness),
     in_tree |-> IF arc.in_tree THEN 1 ELSE 0]

\* The arc the map holds for the pair of tags, in either order: its index in
\* arcs, or 0 when the map holds none.
Map__arc_lookup(heap, list, from_tag, to_tag) ==
    LET hits == {k \in 1 .. Len(list) :
                   {heap[list[k]].from_tag, heap[list[k]].to_tag} = {from_tag, to_tag}}
    IN IF hits = {} THEN 0
       ELSE list[CHOOSE k \in hits : \A j \in hits : k <= j]

(***************************************************************************)
(* The values the operations are called with.                              *)
(***************************************************************************)
TwistVals == {<<0, 0>>, <<0, 785398163>>}
TwistPairs == {tw \in TwistVals \X TwistVals : tw[1] # tw[2]}
DistanceVals == {<<0, 0>>, <<1, 500000000>>}
GoodnessVals == {<<10, 0>>, <<50, 0>>}

TwistTexts == {<<0, 0>>, <<45, 0>>}
TwistTextPairs == {tw \in TwistTexts \X TwistTexts : tw[1] # tw[2]}
DistanceTexts == {<<0, 0>>, <<1, 500000>>}
GoodnessTexts == {<<10, 0>>, <<50, 0>>}

Record(from_id, twists, distance, to_id, goodness, in_tree) ==
    [from_id |-> from_id, from_twist |-> twists[1], distance |-> distance,
     to_id |-> to_id, to_twist |-> twists[2], goodness |-> goodness,
     in_tree |-> in_tree]

NoArgs == [none |-> TRUE]

Called(op, arc, outcome, announce, args) ==
    [op |-> op, arc |-> arc, outcome |-> outcome, announce |-> announce,
     args |-> args]

(***************************************************************************)
(* The state after construction: an empty map over the tags.               *)
(***************************************************************************)
Init ==
    /\ arcs = <<>>
    /\ map_arcs = <<>>
    /\ tag_arcs = [t \in Tags |-> <<>>]
    /\ hop_count = [t \in Tags |-> 0]
    /\ out_file = <<>>
    /\ in_log = <<>>
    /\ last = Called("none", 0, "none", FALSE, NoArgs)
    /\ aborted = FALSE

\* Arc__new called on its own: the arc is allocated and registered nowhere.
NewStep ==
    /\ ~aborted
    /\ Len(arcs) < MaxArcs
    /\ arcs' = Append(arcs, Arc__new)
    /\ last' = Called("new", Len(arcs) + 1, "returned", FALSE, NoArgs)
    /\ UNCHANGED <<map_arcs, tag_arcs, hop_count, out_file, in_log, aborted>>

\* Arc__create: build the arc, then append it to both tags and to the map.
Register(arc, idx) ==
    /\ arcs' = Append(arcs, arc)
    /\ tag_arcs' = [tag_arcs EXCEPT ![arc.from_tag] = Append(@, idx),
                                    ![arc.to_tag] = Append(@, idx)]
    /\ map_arcs' = Append(map_arcs, idx)

CreateStep ==
    /\ ~aborted
    /\ Len(arcs) < MaxArcs
    /\ \E from_tag \in Tags, to_tag \in Tags, twists \in TwistPairs,
          distance \in DistanceVals,
          goodness \in GoodnessVals \cup {Arc__new.goodness} :
          /\ Register(Arc__create(from_tag, twists[1], distance, to_tag,
                                  twists[2], goodness), Len(arcs) + 1)
          /\ last' = Called("create", Len(arcs) + 1, "returned", FALSE,
                            [from_tag |-> from_tag, from_twist |-> twists[1],
                             distance |-> distance, to_tag |-> to_tag,
                             to_twist |-> twists[2], goodness |-> goodness])
    /\ UNCHANGED <<hop_count, out_file, in_log, aborted>>

\* Arc__update called directly on an arc.
UpdateArc(i, from_twist, distance, to_twist, goodness) ==
    \E u \in Arc__update(arcs[i], from_twist, distance, to_twist, goodness) :
       /\ arcs' = [arcs EXCEPT ![i] = u.arc]
       /\ aborted' = (u.fail # "none")
       /\ last' = Called("update", i,
                         IF u.fail = "none" THEN "updated" ELSE u.fail, FALSE,
                         NoArgs)

UpdateStep ==
    /\ ~aborted
    /\ \E i \in 1 .. Len(arcs), twists \in TwistPairs, distance \in DistanceVals,
          goodness \in GoodnessVals :
          UpdateArc(i, twists[1], distance, twists[2], goodness)
    /\ UNCHANGED <<map_arcs, tag_arcs, hop_count, out_file, in_log>>

\* Arc__read of one record whose tags and arc the map holds.
ReadInto(rec) ==
    LET i == Map__arc_lookup(arcs, map_arcs, Map__tag_lookup(rec.from_id),
                             Map__tag_lookup(rec.to_id))
    IN /\ i # 0
       /\ \E r \in Arc__read(arcs[i], rec) :
             /\ arcs' = [arcs EXCEPT ![i] = r.arc]
             /\ aborted' = (r.fail # "none")
             /\ last' = Called("read", i,
                               IF r.fail # "none" THEN r.fail
                               ELSE IF r.announce THEN "updated" ELSE "ignored",
                               r.announce, NoArgs)

ReadStep ==
    /\ ~aborted
    /\ \E from_id \in Tags, to_id \in Tags :
          /\ Map__arc_lookup(arcs, map_arcs, Map__tag_lookup(from_id),
                             Map__tag_lookup(to_id)) # 0
          /\ \E twists \in TwistTextPairs, distance \in DistanceTexts,
                goodness \in GoodnessTexts, in_tree \in {0, 1} :
                ReadInto(Record(from_id, twists, distance, to_id, goodness,
                                in_tree))
    /\ UNCHANGED <<map_arcs, tag_arcs, hop_count, out_file, in_log>>

Next == NewStep \/ CreateStep \/ UpdateStep \/ ReadStep

Spec == Init /\ [][Next]_vars

(***************************************************************************)
(* The comparators, applied to arcs that Arc__create built over tags with  *)
(* any hop counts.                                                         *)
(***************************************************************************)
HopVals == {1, 3}

RECURSIVE Incident(_, _, _)
Incident(heap, t, k) ==
    IF k = 0 THEN <<>>
    ELSE Incident(heap, t, k - 1)
           \o (IF heap[k].from_tag = t THEN <<k>> ELSE <<>>)
           \o (IF heap[k].to_tag = t THEN <<k>> ELSE <<>>)

CreatedArcs(goodnesses) ==
    {Arc__create(from_tag, twists[1], distance, to_tag, twists[2], goodness) :
       from_tag \in Tags, to_tag \in Tags, twists \in TwistPairs,
       distance \in DistanceVals, goodness \in goodnesses}

CompareArcs ==
    {arc \in CreatedArcs({<<10, 0>>}) :
       arc.from_twist = <<0, 0>> \/ arc.distance # <<0, 0>>}

InitCompare ==
    /\ arcs \in [1 .. 3 -> CompareArcs]
    /\ map_arcs = <<1, 2, 3>>
    /\ tag_arcs = [t \in Tags |-> Incident(arcs, t, 3)]
    /\ hop_count \in [Tags -> HopVals]
    /\ out_file = <<>>
    /\ in_log = <<>>
    /\ last = Called("none", 0, "none", FALSE, NoArgs)
    /\ aborted = FALSE

Compared(op, result) ==
    /\ last' = Called(op, 0, result, FALSE, NoArgs)
    /\ UNCHANGED <<arcs, map_arcs, tag_arcs, hop_count, out_file, in_log, aborted>>

EqualStep == Compared("equal", Arc__equal(arcs[1], arcs[2]))

LessStep == Compared("less", Arc__less(arcs[1], arcs[2]))

DistanceLessStep ==
    Compared("distance_less", Arc__distance_less(hop_count, arcs[1], arcs[2]))

NextCompare == EqualStep \/ LessStep \/ DistanceLessStep

SpecCompare == InitCompare /\ [][NextCompare]_vars

(***************************************************************************)
(* A stream of records of one pair of tags, read into the arc of the pair, *)
(* which starts with the goodness Arc__new gives.                          *)
(***************************************************************************)
StreamRecords ==
    {Record(1, twists, distance, 2, goodness, 1) :
       twists \in TwistTextPairs, distance \in {<<1, 500000>>, <<2, 0>>},
       goodness \in GoodnessTexts \cup {<<SentinelGoodness, 0>>}}

InitStream ==
    /\ \E twists \in TwistPairs, distance \in DistanceVals :
          arcs = <<Arc__create(1, twists[1], distance, 2, twists[2],
                               Arc__new.goodness)>>
    /\ map_arcs = <<1>>
    /\ tag_arcs = [t \in Tags |-> Incident(arcs, t, 1)]
    /\ hop_count = [t \in Tags |-> 0]
    /\ out_file = <<>>
    /\ in_log = <<>>
    /\ last = Called("create", 1, "returned", FALSE, NoArgs)
    /\ aborted = FALSE

StreamRead ==
    /\ ~aborted
    /\ Len(in_log) < MaxReads
    /\ \E rec \in StreamRecords :
          /\ ReadInto(rec)
          /\ in_log' = Append(in_log, rec)
    /\ UNCHANGED <<map_arcs, tag_arcs, hop_count, out_file>>

NextStream == StreamRead

SpecStream == InitStream /\ [][NextStream]_vars

(***************************************************************************)
(* Write a measured arc of one map, then read the record into a second map *)
(* that holds the same tags and an arc of the pair not yet measured.       *)
(***************************************************************************)
RoundTripTwists == {<<0, 0>>, <<0, 785398163>>, <<0, 10>>, <<-1, 476401224>>}
RoundTripDistances == {<<1, 500000000>>, <<2, 0>>, <<1, 400>>, <<0, 400>>}
RoundTripGoodnesses == {<<10, 0>>, <<37, 123456789>>}

RoundTripArcs ==
    {[Arc__create(1, from_twist, distance, 2, to_twist, goodness)
        EXCEPT !.in_tree = in_tree] :
       from_twist \in RoundTripTwists, to_twist \in {<<0, 0>>, <<0, 785398163>>},
       distance \in RoundTripDistances, goodness \in RoundTripGoodnesses,
       in_tree \in BOOLEAN}

InitRoundTrip ==
    /\ arcs \in {<<arc>> : arc \in RoundTripArcs}
    /\ map_arcs = <<1>>
    /\ tag_arcs = [t \in Tags |-> Incident(arcs, t, 1)]
    /\ hop_count = [t \in Tags |-> 0]
    /\ out_file = <<>>
    /\ in_log = <<>>
    /\ last = Called("none", 0, "none", FALSE, NoArgs)
    /\ aborted = FALSE

WriteStep ==
    /\ ~aborted
    /\ Len(arcs) = 1
    /\ out_file = <<>>
    /\ out_file' = <<Arc__write(arcs[1])>>
    /\ last' = Called("write", 1, "returned", FALSE, NoArgs)
    /\ UNCHANGED <<arcs, map_arcs, tag_arcs, hop_count, in_log, aborted>>

\* The second map: the same tags, and the arc of the pair as Arc__create
\* builds it before any measurement is loaded.
ReloadStep ==
    /\ ~aborted
    /\ Len(arcs) = 1
    /\ out_file # <<>>
    /\ \E distance \in DistanceVals :
          arcs' = Append(arcs, Arc__create(arcs[1].from_tag, <<0, 0>>, distance,
                                           arcs[1].to_tag, <<0, 0>>,
                                           Arc__new.goodness))
    /\ map_arcs' = <<2>>
    /\ tag_arcs' = [t \in Tags |->
                       IF t \in {arcs[1].from_tag, arcs[1].to_tag} THEN <<2>>
                       ELSE <<>>]
    /\ last' = Called("create", 2, "returned", FALSE, NoArgs)
    /\ UNCHANGED <<hop_count, out_file, in_log, aborted>>

ReadBackStep ==
    /\ ~aborted
    /\ Len(arcs) = 2
    /\ Len(in_log) < Len(out_file)
    /\ ReadInto(out_file[Len(in_log) + 1])
    /\ in_log' = Append(in_log, out_file[Len(in_log) + 1])
    /\ UNCHANGED <<map_arcs, tag_arcs, hop_count, out_file>>

NextRoundTrip == WriteStep \/ ReloadStep \/ ReadBackStep

SpecRoundTrip == InitRoundTrip /\ [][NextRoundTrip]_vars

(***************************************************************************)
(* Properties.                                                             *)
(***************************************************************************)
DecMin(a, b) == IF DecLess(b, a) THEN b ELSE a

MapArc(k) == arcs[map_arcs[k]]

\* C1: every arc the map holds has from_tag.id < to_tag.id, whatever calls of
\* Arc__create (also with one tag given twice), Arc__update and Arc__read
\* were made.
C1_FromIdBelowToId ==
    \A k \in 1 .. Len(map_arcs) : MapArc(k).from_tag < MapArc(k).to_tag

\* C2 as stated: every Arc__update call that returns leaves the goodness at
\* the smaller of the stored and the given one, and changes none of
\* from_twist, to_twist, distance and goodness when the given goodness is not
\* smaller than the stored one.
C2_UpdateKeepsBest ==
    [][\A i \in 1 .. Len(arcs), twists \in TwistPairs, distance \in DistanceVals,
          goodness \in GoodnessVals :
          (UpdateArc(i, twists[1], distance, twists[2], goodness)
             /\ last'.outcome = "updated")
          => /\ arcs'[i].goodness = DecMin(arcs[i].goodness, goodness)
             /\ ~DecLess(goodness, arcs[i].goodness)
                  => /\ arcs'[i].from_twist = arcs[i].from_twist
                     /\ arcs'[i].to_twist = arcs[i].to_twist
                     /\ arcs'[i].distance = arcs[i].distance
                     /\ arcs'[i].goodness = arcs[i].goodness]_vars

\* C2 amended: the gate is in Arc__read.  For every arc the map holds and
\* every record of its pair of tags, an Arc__read of the record that returns
\* leaves the goodness at the smaller of the stored one and the record's, and
\* when the record's goodness is not smaller than the stored one the read
\* changes no field of the arc, fails no assertion and announces nothing.
C2_ReadKeepsBest ==
    \A k \in 1 .. Len(map_arcs) :
       \A ids \in {<<MapArc(k).from_tag, MapArc(k).to_tag>>,
                   <<MapArc(k).to_tag, MapArc(k).from_tag>>},
          twists \in TwistTextPairs, distance \in DistanceTexts,
          goodness \in GoodnessTexts, in_tree \in {0, 1} :
          LET rec == Record(ids[1], twists, distance, ids[2], goodness, in_tree)
              q == File__double_attribute_read(goodness)
          IN \A r \in Arc__read(MapArc(k), rec) :
                /\ r.fail = "none"
                     => r.arc.goodness = DecMin(MapArc(k).goodness, q)
                /\ ~DecLess(q, MapArc(k).goodness)
                     => r.arc = MapArc(k) /\ r.fail = "none" /\ ~r.announce

C2_Witness ==
    /\ last.op = "read"
    /\ last.outcome = "ignored"
    /\ arcs[last.arc].goodness = <<10, 0>>

\* C3 as stated: every arc that exists has distance > 0.
C3_DistancePositive ==
    \A i \in 1 .. Len(arcs) : DecPositive(arcs[i].distance)

\* C3 amended: an arc has distance > 0 when an Arc__update, called directly or
\* by Arc__read, has just loaded it and returned.
C3_DistancePositiveOnceLoaded ==
    (last.op \in {"update", "read"} /\ last.outcome = "updated")
    => DecPositive(arcs[last.arc].distance)

C3_Witness ==
    /\ last.op = "update"
    /\ last.outcome = "updated"
    /\ arcs[last.arc].distance = <<1, 500000000>>

\* C4: the arc Arc__create has just built from two tags of different ids has
\* the from_tag, from_twist, to_tag, to_twist, distance and goodness of the
\* arc built from the same arguments with the two tags and their twists
\* exchanged, and Arc__equal holds of the two.
C4_CreateSymmetric ==
    (last.op = "create" /\ last.args.from_tag # last.args.to_tag)
    => LET made == arcs[last.arc]
           other == Arc__create(last.args.to_tag, last.args.to_twist,
                                last.args.distance, last.args.from_tag,
                                last.args.from_twist, last.args.goodness)
       IN /\ made.from_tag = other.from_tag
          /\ made.from_twist = other.from_twist
          /\ made.to_tag = other.to_tag
          /\ made.to_twist = other.to_twist
          /\ made.distance = other.distance
          /\ made.goodness = other.goodness
          /\ Arc__equal(made, other)
          /\ made.from_twist = IF last.args.from_tag < last.args.to_tag
                               THEN last.args.from_twist ELSE last.args.to_twist

C4_Witness ==
    /\ last.op = "create"
    /\ last.args.from_tag > last.args.to_tag
    /\ arcs[last.arc].from_twist = last.args.to_twist
    /\ arcs[last.arc].from_twist # arcs[last.arc].to_twist

C7_RereadChangesNothing ==
    [][(/\ Len(in_log) >= 1
        /\ Len(in_log') = Len(in_log) + 1
        /\ in_log'[Len(in_log')] = in_log[Len(in_log)])
       => /\ arcs' = arcs
          /\ last'.outcome = "ignored"
          /\ ~last'.announce
          /\ ~aborted']_vars

C7_Witness ==
    /\ Len(in_log) = 2
    /\ in_log[1] = in_log[2]
    /\ in_log[1].goodness = <<10, 0>>
    /\ last.outcome = "ignored"
    /\ arcs[1].goodness = <<10, 0>>
    /\ arcs[1].distance = File__double_attribute_read(in_log[1].distance)

\* C8: an arc written by Arc__write and read back by Arc__read into an arc of
\* the same pair not yet measured is reproduced: distance and goodness
\* exactly, the two twists within 10^-9 radians.
WithinNano(a, b) == ~DecLess(<<0, 1>>, DecAbs(DecSub(a, b)))

C8_RoundTripExact ==
    (Len(arcs) = 2 /\ last.op = "read")
    => /\ last.outcome = "updated"
       /\ arcs[2].distance = arcs[1].distance
       /\ arcs[2].goodness = arcs[1].goodness
       /\ WithinNano(arcs[2].from_twist, arcs[1].from_twist)
       /\ WithinNano(arcs[2].to_twist, arcs[1].to_twist)

\* C9: after the records of the pair read so far, the goodness of the arc is
\* no greater than that of any record read, and the arc holds the twists,
\* distance and goodness of the first record read among those of the smallest
\* goodness below the goodness the arc started with; with no such record the
\* arc still has that goodness.
BelowSentinel == {k \in 1 .. Len(in_log) :
                    DecLess(File__double_attribute_read(in_log[k].goodness),
                            <<SentinelGoodness, 0>>)}

C9_HoldsBestRecord ==
    /\ \A k \in 1 .. Len(in_log) :
          ~DecLess(File__double_attribute_read(in_log[k].goodness), arcs[1].goodness)
    /\ BelowSentinel = {} => arcs[1].goodness = <<SentinelGoodness, 0>>
    /\ \A k \in BelowSentinel :
          (/\ \A j \in BelowSentinel :
                 ~DecLess(File__double_attribute_read(in_log[j].goodness),
                          File__double_attribute_read(in_log[k].goodness))
           /\ \A j \in BelowSentinel :
                 j < k => in_log[j].goodness # in_log[k].goodness)
          => /\ arcs[1].goodness = File__double_attribute_read(in_log[k].goodness)
             /\ arcs[1].distance = File__double_attribute_read(in_log[k].distance)
             /\ arcs[1].from_twist
                  = DecMul(File__double_attribute_read(in_log[k].from_twist),
                           degrees_to_radians)
             /\ arcs[1].to_twist
                  = DecMul(File__double_attribute_read(in_log[k].to_twist),
                           degrees_to_radians)

C9_Witness ==
    /\ Len(in_log) = 3
    /\ in_log[1].goodness = <<50, 0>>
    /\ in_log[2].goodness = <<10, 0>>
    /\ in_log[3].goodness = <<10, 0>>
    /\ in_log[2].distance # in_log[3].distance
    /\ arcs[1].distance = File__double_attribute_read(in_log[2].distance)

\* C10: an Arc__update that fails an assertion, called directly or by
\* Arc__read on an arc that has its two tags, has changed no field of any arc.
C10_FailedUpdateChangesNothing ==
    [][(/\ last'.op \in {"update", "read"}
        /\ last'.outcome \in {"assert_ids", "assert_distance"}
        /\ arcs[last'.arc].from_tag # NullTag
        /\ arcs[last'.arc].to_tag # NullTag)
       => arcs' = arcs]_vars
====
